---- MODULE Spec2Model ----
(***************************************************************************)
(* Access control and feature gating of the BotTrapper Discord bot:        *)
(* FeatureManager (per-guild feature flags behind an expiring cache),      *)
(* DatabaseManager's global-admin lookup (behind its own expiring cache)   *)
(* and PermissionManager.checkCommandPermission.                           *)
(*                                                                         *)
(* Every operation is one action that models the whole handler.  A store   *)
(* call (a pool.connect()/client.query() pair) either succeeds or throws;  *)
(* the outcome of each call is an input of the action.                     *)
(***************************************************************************)
EXTENDS Integers, Sequences, FiniteSets, TLC

\* ------------------------------------------------------------------ bounds
MaxTicks == 2          \* number of clock advances explored

\* --------------------------------------------------------- program constants
CACHE_DURATION == 5 * 60 * 1000   \* FeatureManager.CACHE_DURATION (ms)
CACHE_TTL == 5 * 60 * 1000        \* DatabaseManager.CACHE_TTL (ms)

Guilds == {"G1"}

\* the guilds with a guild_settings row to read or write: the guild the bot
\* serves and another one
StoreGuilds == Guilds \cup {"G2"}
Users == {"U1", "U2"}
Roles == {"mod", "vip"}

\* interaction.guild.ownerId
OwnerId(g) == "U1"

\* export type FeatureName
FeatureName == {"tickets", "autoresponses", "statistics", "webhooks"}

\* commandsData: the static command catalog
commandsData ==
  <<"ticket", "embed", "autoresponse", "stats", "changelog", "autorole", "bottrapper">>

CommandNames == {commandsData[i] : i \in DOMAIN commandsData}

\* COMMAND_FEATURE_MAP; "" stands for `undefined` (no feature requirement)
COMMAND_FEATURE_MAP(c) ==
  CASE c = "ticket" -> "tickets"
    [] c = "autoresponse" -> "autoresponses"
    [] c = "stats" -> "statistics"
    [] c = "autorole" -> "autoroles"
    [] OTHER -> ""

\* ------------------------------------------------------------ JS array ops
Includes(arr, x) == \E i \in DOMAIN arr : arr[i] = x

Filter(arr, x) == SelectSeq(arr, LAMBDA f : f # x)

Push(arr, x) == Append(arr, x)

Elems(arr) == {arr[i] : i \in DOMAIN arr}

\* -------------------------------------------------------------------- state
VARIABLES
  now,           \* Date.now()
  ticks,         \* clock advances made so far
  guildStore,    \* guild_settings table: guild -> row
  featureCache,  \* FeatureManager.featureCache
  cacheExpiry,   \* FeatureManager.cacheExpiry (0: no entry)
  adminStore,    \* global_admins table: user -> row
  adminCache,    \* DatabaseManager.adminCache
  cmdPerms,      \* command_permissions table: <<guild, role>> -> row
  guildCommands, \* the commands registered with Discord for each guild
  registerGuildCommandsFunction, \* api/server.ts: the installed function, or "null"
  applicationCommands,  \* the commands published for every guild
  adminActivityLog,     \* admin_activity_log table, in insertion order
  botStats,             \* bot_stats table: the number of rows
  calls,                \* the asynchronous calls in flight, by slot
  last,          \* the operation that completed last, with its inputs and result
  prev           \* the operation that completed before it

vars ==
  <<now, ticks, guildStore, featureCache, cacheExpiry, adminStore, adminCache,
    cmdPerms, guildCommands, registerGuildCommandsFunction, applicationCommands,
    adminActivityLog, botStats, calls, last, prev>>

NoRow == [exists |-> FALSE, enabled_features |-> <<>>, settings |-> <<>>]
NoEntry == [has |-> FALSE, val |-> <<>>]
NoAdminRow == [exists |-> FALSE, level |-> 0, active |-> FALSE]
NoAdminEntry == [has |-> FALSE, isAdmin |-> FALSE, level |-> 0, timestamp |-> 0]
NoRule == [exists |-> FALSE, allowed |-> {}, denied |-> {}]
NoCatalog == [has |-> FALSE, names |-> <<>>]

\* The record kept of a completed operation: its inputs, its result (res,
\* feats or admin; raised when it threw), the store calls made and the failed
\* ones, and
\*   entry   the state of the cache entry it found (see featureEntry),
\*   cached  for grant and revoke, the answer the admin cache held before,
\*   readBefore  for updateFeatures, the result of the getEnabledFeatures of
\*           the same guild that ran directly before it in the same instant,
\*           if one did,
\*   settings, id  for the guild_settings calls, the settings map written or
\*           read and whether the row returned has an id,
\*   created for getGuildSettings, whether the guild had no row before,
\*   at      the time it ran,
\*   gap     the time since the operation before it: "same" instant, "within"
\*           one cache lifetime, or "beyond".
\* the slots of the calls that overlap
MaxCalls == 2

Slots == 1..MaxCalls

NoReply ==
  [found |-> FALSE, raised |-> FALSE, feats |-> <<>>, settings |-> <<>>, isAdmin |-> FALSE, level |-> 0]

\* An asynchronous call: the query it awaits (stage), whether the store has
\* answered it (phase "r") or not yet ("q"), the answer, and its locals.
\* missed: its cache lookup found nothing; with: the calls in flight when it
\* started; dirty: the store row of its key was written while it was in
\* flight; revokedAtStart: it started on a revoked row with no write in flight.
NoCall ==
  [op |-> "idle", stage |-> "done", phase |-> "r", key |-> "", patch |-> <<>>, level |-> 0,
   reply |-> NoReply, cur |-> <<>>, newFeatures |-> <<>>, settings |-> <<>>,
   res |-> <<>>, admin |-> [isAdmin |-> FALSE, level |-> 0], raised |-> FALSE,
   missed |-> FALSE, with |-> {}, dirty |-> FALSE, revokedAtStart |-> FALSE]

NoOp ==
  [op |-> "none", g |-> "", u |-> "", cmd |-> "", sub |-> "", roles |-> {},
   bits |-> {}, botOwner |-> FALSE, inGuild |-> FALSE, feat |-> "",
   patch |-> <<>>, level |-> 0, res |-> FALSE, feats |-> <<>>,
   admin |-> [isAdmin |-> FALSE, level |-> 0], raised |-> FALSE,
   cached |-> [isAdmin |-> FALSE, level |-> 0],
   readBefore |-> [has |-> FALSE, feats |-> <<>>],
   made |-> <<>>, failed |-> {}, entry |-> "none", at |-> 0, gap |-> "same",
   settings |-> <<>>, id |-> FALSE, created |-> FALSE,
   status |-> 0, body |-> [enabledFeatures |-> <<>>, commandsUpdated |-> FALSE],
   resyncs |-> 0, sent |-> <<>>, before |-> NoCatalog, outcome |-> ""]

\* ------------------------------------------------- DatabaseManager: settings
\* The TEXT columns enabled_features and settings hold JSON: a text is the
\* sequence of its tokens, "" (or NULL) the empty sequence.  An array is the
\* sequence of its elements, an object the sequence of its <<key, value>>
\* pairs in insertion order.
JSON_stringifyArray(arr) == <<"[">> \o arr \o <<"]">>

JSON_stringifyObject(obj) == <<"{">> \o obj \o <<"}">>

JSON_parse_keepBracket(text) == SubSeq(text, 2, Len(text))

\* JSON.parse of the text of an array or of an object
JSON_parse(text) == SubSeq(text, 2, Len(text) - 1)

\* text || fallback
OrElse(text, fallback) == IF text = <<>> THEN fallback ELSE text

\* the enabled features and the settings a row holds
rowFeatures(row) == JSON_parse(OrElse(row.enabled_features, <<"[", "]">>))

rowSettings(row) == JSON_parse(OrElse(row.settings, <<"{", "}">>))

\* getGuildSettings: the row of the guild, created with the default features
\* when there is none.  ok: the store calls of this invocation succeed.
defaultFeatures == <<"tickets", "autoresponses", "statistics">>

getGuildSettings(store, g, ok) ==
  LET newRow == [exists |-> TRUE,
                 enabled_features |-> JSON_stringifyArray(defaultFeatures),
                 settings |-> JSON_stringifyObject(<<>>)]
  IN
  IF ~ok THEN [raised |-> TRUE, id |-> FALSE, enabledFeatures |-> <<>>,
               settings |-> <<>>, store |-> store]
  ELSE IF store[g].exists
    THEN [raised |-> FALSE, id |-> TRUE, enabledFeatures |-> rowFeatures(store[g]),
          settings |-> rowSettings(store[g]), store |-> store]
    ELSE [raised |-> FALSE, id |-> TRUE, enabledFeatures |-> rowFeatures(newRow),
          settings |-> rowSettings(newRow), store |-> [store EXCEPT ![g] = newRow]]

\* the SELECT of getGuildSettings, as the store answers it
selectGuildSettings(store, g) ==
  IF store[g].exists
    THEN [NoReply EXCEPT !.found = TRUE, !.feats = rowFeatures(store[g]), !.settings = rowSettings(store[g])]
  ELSE NoReply

\* the INSERT of getGuildSettings: guild_id is UNIQUE and the statement has no
\* ON CONFLICT clause, so it fails when a row of the guild exists
insertGuildSettings(store, g) ==
  LET newRow == [exists |-> TRUE,
                 enabled_features |-> JSON_stringifyArray(defaultFeatures),
                 settings |-> JSON_stringifyObject(<<>>)]
  IN IF store[g].exists THEN [reply |-> [NoReply EXCEPT !.raised = TRUE], store |-> store]
     ELSE [reply |-> [NoReply EXCEPT !.found = TRUE, !.feats = rowFeatures(newRow), !.settings = rowSettings(newRow)],
           store |-> [store EXCEPT ![g] = newRow]]

\* updateGuildSettings: upsert of the row
updateGuildSettings(store, g, enabledFeatures, settings, ok) ==
  IF ~ok THEN [raised |-> TRUE, store |-> store]
  ELSE [raised |-> FALSE,
        store |-> [store EXCEPT ![g] =
                     [exists |-> TRUE,
                      enabled_features |-> JSON_stringifyArray(enabledFeatures),
                      settings |-> JSON_stringifyObject(settings)]]]

\* ------------------------------------------------------------ FeatureManager
\* The cache part of the state is the record [cache, expiry].
getCachedFeatures_noExpiry(C, g, t) ==
  [hit |-> C.cache[g].has, val |-> C.cache[g].val, C |-> C]

getCachedFeatures_miss(C, g, t) ==
  [hit |-> FALSE, val |-> <<>>,
   C |-> [cache |-> [C.cache EXCEPT ![g] = NoEntry],
          expiry |-> [C.expiry EXCEPT ![g] = 0]]]

\* getCachedFeatures(guildId): the entry, unless Date.now() is past its
\* expiry; an expired entry is deleted
getCachedFeatures(C, g, t) ==
  IF C.expiry[g] = 0 \/ t > C.expiry[g]
    THEN [hit |-> FALSE, val |-> <<>>,
          C |-> [cache |-> [C.cache EXCEPT ![g] = NoEntry],
                 expiry |-> [C.expiry EXCEPT ![g] = 0]]]
    ELSE [hit |-> C.cache[g].has, val |-> C.cache[g].val, C |-> C]

setCachedFeatures_skip(C, g, features, t) == C

\* setCachedFeatures(guildId, features)
setCachedFeatures(C, g, features, t) ==
  [cache |-> [C.cache EXCEPT ![g] = [has |-> TRUE, val |-> features]],
   expiry |-> [C.expiry EXCEPT ![g] = t + CACHE_DURATION]]

\* the array returned when the read fails
failOpenFeatures == <<"tickets", "autoresponses", "statistics", "webhooks">>

\* getEnabledFeatures(guildId).  Result: the array returned, the new store and
\* cache, the store calls made and the ones that failed.
getEnabledFeatures(store, C, g, t, ok) ==
  LET c == getCachedFeatures(C, g, t) IN
  IF c.hit
    THEN [res |-> c.val, store |-> store, C |-> c.C, made |-> <<>>, failed |-> {}]
    ELSE LET s == getGuildSettings(store, g, ok) IN
      IF s.raised
        THEN [res |-> failOpenFeatures, store |-> store, C |-> c.C,
              made |-> <<"getGuildSettings">>, failed |-> {"getGuildSettings"}]
        ELSE [res |-> s.enabledFeatures, store |-> s.store,
              C |-> setCachedFeatures(c.C, g, s.enabledFeatures, t),
              made |-> <<"getGuildSettings">>, failed |-> {}]

\* isFeatureEnabled(guildId, feature)
isFeatureEnabled(store, C, g, feature, t, ok) ==
  LET c == getCachedFeatures(C, g, t) IN
  IF c.hit
    THEN [res |-> Includes(c.val, feature), store |-> store, C |-> c.C,
          made |-> <<>>, failed |-> {}]
    ELSE LET s == getGuildSettings(store, g, ok) IN
      IF s.raised
        THEN [res |-> TRUE, store |-> store, C |-> c.C,
              made |-> <<"getGuildSettings">>, failed |-> {"getGuildSettings"}]
        ELSE [res |-> Includes(s.enabledFeatures, feature), store |-> s.store,
              C |-> setCachedFeatures(c.C, g, s.enabledFeatures, t),
              made |-> <<"getGuildSettings">>, failed |-> {}]

\* one entry of the patch applied to the array
applyEntry(arr, e) ==
  IF e.enabled /\ ~Includes(arr, e.feature) THEN Push(arr, e.feature)
  ELSE IF ~e.enabled /\ Includes(arr, e.feature) THEN Filter(arr, e.feature)
  ELSE arr

\* the loop over Object.entries(features)
RECURSIVE applyPatch(_, _)
applyPatch(arr, patch) ==
  IF patch = <<>> THEN arr
  ELSE applyPatch(applyEntry(arr, Head(patch)), Tail(patch))

\* updateFeatures(guildId, features).  ok1: the read of getEnabledFeatures,
\* ok2: getGuildSettings, ok3: updateGuildSettings.
updateFeatures(store, C, g, patch, t, ok1, ok2, ok3) ==
  LET r == getEnabledFeatures(store, C, g, t, ok1)
      newFeatures == applyPatch(r.res, patch)
      s == getGuildSettings(r.store, g, ok2)
      w == updateGuildSettings(s.store, g, newFeatures, s.settings, ok3)
  IN
  IF s.raised
    THEN [raised |-> TRUE, store |-> r.store, C |-> r.C, res |-> newFeatures,
          made |-> r.made \o <<"getGuildSettings">>,
          failed |-> r.failed \cup {"settings"}]
  ELSE IF w.raised
    THEN [raised |-> TRUE, store |-> s.store, C |-> r.C, res |-> newFeatures,
          made |-> r.made \o <<"getGuildSettings", "updateGuildSettings">>,
          failed |-> r.failed \cup {"updateGuildSettings"}]
  ELSE [raised |-> FALSE, store |-> w.store,
        C |-> setCachedFeatures(r.C, g, newFeatures, t), res |-> newFeatures,
        made |-> r.made \o <<"getGuildSettings", "updateGuildSettings">>,
        failed |-> r.failed]

\* ------------------------------------------------ DatabaseManager: admins
\* isGlobalAdmin(userId): the cached answer while it is younger than
\* CACHE_TTL, else the active row of the store, which is then cached.
isGlobalAdmin(store, cache, u, t, ok) ==
  LET cached == cache[u] IN
  IF cached.has /\ t - cached.timestamp < CACHE_TTL
    THEN [raised |-> FALSE, admin |-> [isAdmin |-> cached.isAdmin, level |-> cached.level],
          cache |-> cache, made |-> <<>>, failed |-> {}]
  ELSE IF ~ok
    THEN [raised |-> TRUE, admin |-> [isAdmin |-> FALSE, level |-> 0],
          cache |-> cache, made |-> <<"isGlobalAdmin">>, failed |-> {"isGlobalAdmin"}]
  ELSE LET adminInfo ==
             IF store[u].exists /\ store[u].active
               THEN [isAdmin |-> TRUE, level |-> store[u].level]
               ELSE [isAdmin |-> FALSE, level |-> 0]
       IN [raised |-> FALSE, admin |-> adminInfo,
           cache |-> [cache EXCEPT ![u] =
                        [has |-> TRUE, isAdmin |-> adminInfo.isAdmin,
                         level |-> adminInfo.level, timestamp |-> t]],
           made |-> <<"isGlobalAdmin">>, failed |-> {}]

clearAdminCache_keep(cache, u) == cache

\* clearAdminCache(userId)
clearAdminCache(cache, u) == [cache EXCEPT ![u] = NoAdminEntry]

addGlobalAdmin_clearsFirst(store, cache, u, level, ok) ==
  IF ~ok THEN [raised |-> TRUE, store |-> store, cache |-> clearAdminCache(cache, u)]
  ELSE [raised |-> FALSE,
        store |-> [store EXCEPT ![u] = [exists |-> TRUE, level |-> level, active |-> TRUE]],
        cache |-> clearAdminCache(cache, u)]

\* addGlobalAdmin(userId, username, level, grantedBy): upsert, then the
\* user's cache entry is cleared.  A failing query leaves both untouched.
addGlobalAdmin(store, cache, u, level, ok) ==
  IF ~ok THEN [raised |-> TRUE, store |-> store, cache |-> cache]
  ELSE [raised |-> FALSE,
        store |-> [store EXCEPT ![u] = [exists |-> TRUE, level |-> level, active |-> TRUE]],
        cache |-> clearAdminCache(cache, u)]

\* removeGlobalAdmin(userId): is_active = false on the row, cache cleared
removeGlobalAdmin(store, cache, u, ok) ==
  IF ~ok THEN [raised |-> TRUE, store |-> store, cache |-> cache, rowCount |-> 0]
  ELSE [raised |-> FALSE,
        store |-> IF store[u].exists THEN [store EXCEPT ![u].active = FALSE] ELSE store,
        cache |-> clearAdminCache(cache, u),
        rowCount |-> IF store[u].exists THEN 1 ELSE 0]

\* logAdminActivity(adminUserId, action, targetType, targetId, details): a row
\* is inserted into admin_activity_log
logAdminActivity(log, adminUserId, action, targetType, targetId, ok) ==
  IF ~ok THEN [raised |-> TRUE, log |-> log]
  ELSE [raised |-> FALSE,
        log |-> Append(log, [admin_user_id |-> adminUserId, action |-> action,
                             target_type |-> targetType, target_id |-> targetId])]

\* the middleware requireGlobalAdmin: 0 when it calls next(), else the status
\* it answers; a rejected lookup leaves the request unanswered ("raised")
requireGlobalAdmin(store, cache, user, t, ok) ==
  LET adminStatus == isGlobalAdmin(store, cache, user, t, ok) IN
  [raised |-> adminStatus.raised,
   status |-> IF adminStatus.raised THEN 0 ELSE IF ~adminStatus.admin.isAdmin THEN 403 ELSE 0,
   cache |-> adminStatus.cache]

\* level || 1
OrOne(level) == IF level = 0 THEN 1 ELSE level

\* POST /api/admin/admins with body {userId, username, level}; "" is a
\* missing userId
postAdmins(store, cache, log, user, userId, level, t, okAuth, okAdd, okLog) ==
  LET m == requireGlobalAdmin(store, cache, user, t, okAuth)
      a == addGlobalAdmin(store, m.cache, userId, OrOne(level), okAdd)
      l == logAdminActivity(log, user, "ADD_GLOBAL_ADMIN", "user", userId, okLog)
  IN
  IF m.raised \/ m.status # 0
    THEN [status |-> m.status, store |-> store, cache |-> m.cache, log |-> log]
  ELSE IF userId = ""
    THEN [status |-> 400, store |-> store, cache |-> m.cache, log |-> log]
  ELSE IF a.raised
    THEN [status |-> 500, store |-> a.store, cache |-> a.cache, log |-> log]
  ELSE IF l.raised
    THEN [status |-> 500, store |-> a.store, cache |-> a.cache, log |-> log]
  ELSE [status |-> 200, store |-> a.store, cache |-> a.cache, log |-> l.log]

\* DELETE /api/admin/admins/:userId
deleteAdmins(store, cache, log, user, userId, t, okAuth, okRemove, okLog) ==
  LET m == requireGlobalAdmin(store, cache, user, t, okAuth)
      r == removeGlobalAdmin(store, m.cache, userId, okRemove)
      l == logAdminActivity(log, user, "REMOVE_GLOBAL_ADMIN", "user", userId, okLog)
  IN
  IF m.raised \/ m.status # 0
    THEN [status |-> m.status, store |-> store, cache |-> m.cache, log |-> log]
  ELSE IF userId = user
    THEN [status |-> 400, store |-> store, cache |-> m.cache, log |-> log]
  ELSE IF r.raised
    THEN [status |-> 500, store |-> r.store, cache |-> r.cache, log |-> log]
  ELSE IF r.rowCount = 0
    THEN [status |-> 404, store |-> r.store, cache |-> r.cache, log |-> log]
  ELSE IF l.raised
    THEN [status |-> 500, store |-> r.store, cache |-> r.cache, log |-> log]
  ELSE [status |-> 200, store |-> r.store, cache |-> r.cache, log |-> l.log]

\* ------------------------------------------------- command permission rules
getUserAllowedCommands_noDenied(perms, g, userRoles, ok) ==
  IF ~ok THEN [raised |-> TRUE, allowed |-> {}, denied |-> {}]
  ELSE LET rows == {perms[<<g, r>>] : r \in {x \in userRoles : perms[<<g, x>>].exists}}
           allowedCommands == UNION {row.allowed : row \in rows}
       IN [raised |-> FALSE, allowed |-> allowedCommands, denied |-> {}]

\* getUserAllowedCommands(guildId, userId, userRoles): the union of the
\* allowed and of the denied commands over the rows of the user's roles;
\* a denied command is taken out of the allowed ones.
getUserAllowedCommands(perms, g, userRoles, ok) ==
  IF ~ok THEN [raised |-> TRUE, allowed |-> {}, denied |-> {}]
  ELSE LET rows == {perms[<<g, r>>] : r \in {x \in userRoles : perms[<<g, x>>].exists}}
           allowedCommands == UNION {row.allowed : row \in rows}
           deniedCommands == UNION {row.denied : row \in rows}
       IN [raised |-> FALSE,
           allowed |-> {cmd \in allowedCommands : cmd \notin deniedCommands},
           denied |-> deniedCommands]

\* updateCommandPermissions(guildId, roleId, data): upsert of the role's row
updateCommandPermissions(perms, g, roleId, allowedCommands, deniedCommands) ==
  [perms EXCEPT ![<<g, roleId>>] =
     [exists |-> TRUE, allowed |-> allowedCommands, denied |-> deniedCommands]]

\* deleteCommandPermissions(guildId, roleId)
deleteCommandPermissions(perms, g, roleId) ==
  [perms EXCEPT ![<<g, roleId>>] = NoRule]

\* --------------------------------------------------------- PermissionManager
PermissionFlagsBits == {"Administrator", "ManageMessages", "ManageChannels"}

getDefaultPermissions ==
  [canManageTickets |-> FALSE, canManageAutoResponses |-> FALSE,
   canViewStats |-> FALSE, canUseEmbedBuilder |-> TRUE,
   canManagePermissions |-> FALSE, canManageAutoRoles |-> FALSE]

getModeratorPermissions_withAutoResponses ==
  [canManageTickets |-> TRUE, canManageAutoResponses |-> TRUE,
   canViewStats |-> TRUE, canUseEmbedBuilder |-> TRUE,
   canManagePermissions |-> FALSE, canManageAutoRoles |-> FALSE]

getModeratorPermissions ==
  [canManageTickets |-> TRUE, canManageAutoResponses |-> FALSE,
   canViewStats |-> TRUE, canUseEmbedBuilder |-> TRUE,
   canManagePermissions |-> FALSE, canManageAutoRoles |-> FALSE]

getAdminPermissions ==
  [canManageTickets |-> TRUE, canManageAutoResponses |-> TRUE,
   canViewStats |-> TRUE, canUseEmbedBuilder |-> TRUE,
   canManagePermissions |-> TRUE, canManageAutoRoles |-> TRUE]

isGuildOwner_never(g, u) == FALSE

\* interaction.guild.ownerId === userId
isGuildOwner(g, u) == OwnerId(g) = u

isGlobalAdminSafe_deaf(store, cache, u, t, ok) ==
  [isGlobalAdmin(store, cache, u, t, ok) EXCEPT
     !.raised = FALSE, !.admin = [isAdmin |-> FALSE, level |-> 0]]

\* PermissionManager.isGlobalAdmin(userId): dbManager.isGlobalAdmin with a
\* catch that answers {false, 0}
isGlobalAdminSafe(store, cache, u, t, ok) ==
  LET r == isGlobalAdmin(store, cache, u, t, ok) IN
  IF r.raised THEN [r EXCEPT !.raised = FALSE, !.admin = [isAdmin |-> FALSE, level |-> 0]]
  ELSE r

\* getUserPermissionsFromDB(userId, guildId): TRUE when it returns null.
\* dbManager.getUserPermissions hands back the row with `permissions` already
\* parsed into an array of permission keys; JSON.parse of that array (coerced
\* to the string of its keys joined by commas, or to "") throws, and the catch
\* returns null as it does when the query fails or finds no row.
getUserPermissionsFromDBIsNull(hasRow, ok) ==
  IF ~ok THEN TRUE
  ELSE IF ~hasRow THEN TRUE
  ELSE TRUE

\* getUserPermissions(member)
getUserPermissions(store, cache, u, bits, t, ok) ==
  LET a == isGlobalAdmin(store, cache, u, t, ok) IN
  IF a.raised
    THEN [raised |-> TRUE, permissions |-> getDefaultPermissions, cache |-> a.cache,
          made |-> a.made, failed |-> a.failed]
  ELSE [raised |-> FALSE,
        permissions |->
          IF a.admin.isAdmin THEN getAdminPermissions
          ELSE IF "Administrator" \in bits THEN getAdminPermissions
          ELSE IF "ManageMessages" \in bits \/ "ManageChannels" \in bits
            THEN getModeratorPermissions
          ELSE getDefaultPermissions,
        cache |-> a.cache, made |-> a.made, failed |-> a.failed]

Tag(labels, n) == [i \in DOMAIN labels |-> labels[i] \o n]

TagSet(labels, n) == {l \o n : l \in labels}

\* hasPermission(interaction, requiredPermission).  okA: the admin lookup,
\* okP: the user_permissions query, okB: the admin lookup of
\* getUserPermissions.
hasPermission(store, cache, g, u, bits, botOwner, hasRow, required, t, okA, okP, okB) ==
  LET a == isGlobalAdmin(store, cache, u, t, okA)
      p == getUserPermissions(store, a.cache, u, bits, t, okB)
      am == Tag(a.made, "#2")
      af == TagSet(a.failed, "#2")
  IN
  IF a.raised
    THEN [raised |-> TRUE, res |-> FALSE, cache |-> a.cache, made |-> am, failed |-> af]
  ELSE IF a.admin.isAdmin \/ botOwner \/ isGuildOwner(g, u) \/ "Administrator" \in bits
    THEN [raised |-> FALSE, res |-> TRUE, cache |-> a.cache, made |-> am, failed |-> af]
  ELSE IF ~getUserPermissionsFromDBIsNull(hasRow, okP)
    THEN [raised |-> FALSE, res |-> FALSE, cache |-> a.cache, made |-> am, failed |-> af]
  ELSE [raised |-> p.raised,
        res |-> ~p.raised /\ p.permissions[required],
        cache |-> p.cache,
        made |-> am \o <<"getUserPermissions">> \o Tag(p.made, "#3"),
        failed |-> af \cup (IF okP THEN {} ELSE {"getUserPermissions"})
                     \cup TagSet(p.failed, "#3")]

\* the switch of checkCommandPermission: the legacy permission system
legacyPermission(store, cache, g, u, commandName, subcommand, bits, botOwner, hasRow, t, okA, okP, okB) ==
  LET none == [raised |-> FALSE, res |-> TRUE, cache |-> cache, made |-> <<>>,
               failed |-> {}]
      has(required) ==
        hasPermission(store, cache, g, u, bits, botOwner, hasRow, required, t,
                      okA, okP, okB)
  IN
  CASE commandName = "ticket" ->
         IF subcommand = "create" THEN none ELSE has("canManageTickets")
    [] commandName = "autoresponse" -> has("canManageAutoResponses")
    [] commandName = "stats" -> has("canViewStats")
    [] commandName = "embed" -> has("canUseEmbedBuilder")
    [] OTHER -> none

ruleDecision_failClosed(c, commandName) ==
  IF c.raised THEN "deny"
  ELSE IF commandName \in c.denied THEN "deny"
  ELSE IF commandName \in c.allowed THEN "allow"
  ELSE "none"

\* the try block of checkCommandPermission on the answer c of
\* getUserAllowedCommands: a denied command is blocked, an allowed one is
\* granted; the catch logs the error and neither blocks nor grants
ruleDecision(c, commandName) ==
  IF c.raised THEN "none"
  ELSE IF commandName \in c.denied THEN "deny"
  ELSE IF commandName \in c.allowed THEN "allow"
  ELSE "none"

\* checkCommandPermission(interaction, commandName).  ok1: the admin lookup,
\* okR: the query of the role rules; okA, okP, okB as in hasPermission.
checkCommandPermission(store, cache, perms, inGuild, g, u, userRoles, bits, botOwner, hasRow, commandName, subcommand, t, ok1, okR, okA, okP, okB) ==
  LET a == isGlobalAdminSafe(store, cache, u, t, ok1)
      c == getUserAllowedCommands(perms, g, userRoles, okR)
      d == ruleDecision(c, commandName)
      cm == a.made \o <<"getUserAllowedCommands">>
      cf == a.failed \cup (IF c.raised THEN {"getUserAllowedCommands"} ELSE {})
      l == legacyPermission(store, a.cache, g, u, commandName, subcommand, bits,
                            botOwner, hasRow, t, okA, okP, okB)
  IN
  IF ~inGuild
    THEN [raised |-> FALSE, res |-> FALSE, cache |-> cache, made |-> <<>>, failed |-> {}]
  ELSE IF isGuildOwner(g, u)
    THEN [raised |-> FALSE, res |-> TRUE, cache |-> cache, made |-> <<>>, failed |-> {}]
  ELSE IF a.admin.isAdmin
    THEN [raised |-> FALSE, res |-> TRUE, cache |-> a.cache, made |-> a.made,
          failed |-> a.failed]
  ELSE IF d = "deny"
    THEN [raised |-> FALSE, res |-> FALSE, cache |-> a.cache, made |-> cm, failed |-> cf]
  ELSE IF d = "allow"
    THEN [raised |-> FALSE, res |-> TRUE, cache |-> a.cache, made |-> cm, failed |-> cf]
  ELSE [raised |-> l.raised, res |-> l.res, cache |-> l.cache,
        made |-> cm \o l.made, failed |-> cf \cup l.failed]

\* logCommand(commandName, userId, guildId): a row is inserted into bot_stats
logCommand(stats, ok) ==
  IF ~ok THEN [raised |-> TRUE, stats |-> stats] ELSE [raised |-> FALSE, stats |-> stats + 1]

\* the feature execute() of the command asks isFeatureEnabled about before it
\* does anything else; "" when it asks about none
executeFeature(commandName) ==
  CASE commandName = "ticket" -> "tickets"
    [] commandName = "autorole" -> "autoroles"
    [] OTHER -> ""

\* the interactionCreate handler of a chat input command: the permission is
\* checked (a rejection is not caught), a refusal is replied; else the usage
\* is logged and the command executed, whose first step is its feature check.
\* p, l, f: what checkCommandPermission, logCommand and the isFeatureEnabled
\* of execute() answer when they are awaited.
interactionCreate(p, l, f, gstore, C, stats, commandName) ==
  LET base == [outcome |-> "", res |-> p.res, cache |-> p.cache, store |-> gstore, C |-> C,
               stats |-> stats, made |-> p.made, failed |-> p.failed]
  IN
  IF p.raised THEN [base EXCEPT !.outcome = "unhandled"]
  ELSE IF ~p.res THEN [base EXCEPT !.outcome = "forbidden"]
  ELSE IF l.raised
    THEN [base EXCEPT !.outcome = "error", !.made = p.made \o <<"logCommand">>,
                      !.failed = p.failed \cup {"logCommand"}]
  ELSE IF executeFeature(commandName) = ""
    THEN [base EXCEPT !.outcome = "executed", !.stats = l.stats,
                      !.made = p.made \o <<"logCommand">>]
  ELSE [base EXCEPT !.outcome = IF f.res THEN "executed" ELSE "feature-disabled",
                    !.stats = l.stats, !.store = f.store, !.C = f.C,
                    !.made = p.made \o <<"logCommand">> \o f.made,
                    !.failed = p.failed \cup f.failed]

\* ------------------------------------------------------ command catalogue
\* registerGuildCommands(guildId): the commands whose feature is enabled, or
\* that need none, are registered for the guild.  okRead: the store calls of
\* getEnabledFeatures, okPut: the REST call.  Errors are caught and logged.
registerGuildCommands_all(store, C, cat, g, t, okRead, okPut) ==
  LET e == getEnabledFeatures(store, C, g, t, okRead) IN
  [store |-> e.store, C |-> e.C,
   cat |-> IF okPut THEN [cat EXCEPT ![g] = [has |-> TRUE, names |-> commandsData]] ELSE cat,
   sent |-> commandsData, made |-> e.made,
   failed |-> e.failed \cup (IF okPut THEN {} ELSE {"rest.put"})]

registerGuildCommands_wipes(store, C, cat, g, t, okRead, okPut) ==
  LET e == getEnabledFeatures(store, C, g, t, okRead)
      keep(name) == COMMAND_FEATURE_MAP(name) = ""
                      \/ Includes(e.res, COMMAND_FEATURE_MAP(name))
      availableCommands == SelectSeq(commandsData, LAMBDA name : keep(name))
  IN [store |-> e.store, C |-> e.C,
      cat |-> [cat EXCEPT ![g] = [has |-> okPut,
                                  names |-> IF okPut THEN availableCommands ELSE <<>>]],
      sent |-> availableCommands, made |-> e.made,
      failed |-> e.failed \cup (IF okPut THEN {} ELSE {"rest.put"})]

registerGuildCommands(store, C, cat, g, t, okRead, okPut) ==
  LET e == getEnabledFeatures(store, C, g, t, okRead)
      keep(name) == COMMAND_FEATURE_MAP(name) = ""
                      \/ Includes(e.res, COMMAND_FEATURE_MAP(name))
      availableCommands == SelectSeq(commandsData, LAMBDA name : keep(name))
  IN [store |-> e.store, C |-> e.C,
      cat |-> IF okPut THEN [cat EXCEPT ![g] = [has |-> TRUE, names |-> availableCommands]]
              ELSE cat,
      sent |-> availableCommands, made |-> e.made,
      failed |-> e.failed \cup (IF okPut THEN {} ELSE {"rest.put"})]

\* registerCommands(): the whole catalog is registered for the guild GUILD_ID
\* when the environment names one, else for the application (every guild).
\* Errors are caught and logged.
registerCommands(cat, app, GUILD_ID, okPut) ==
  IF ~okPut THEN [cat |-> cat, app |-> app]
  ELSE IF GUILD_ID # ""
    THEN [cat |-> [cat EXCEPT ![GUILD_ID] = [has |-> TRUE, names |-> commandsData]],
          app |-> app]
  ELSE [cat |-> cat, app |-> [has |-> TRUE, names |-> commandsData]]

\* initializeGuildDefaults(guildId): the settings are read, which creates a
\* missing row; the defaults are written when the row read has no id.  Errors
\* are caught and logged.
initializeGuildDefaults(store, g, okRead, okWrite) ==
  LET existingSettings == getGuildSettings(store, g, okRead)
      isFirstTimeSetup == ~existingSettings.id
      w == updateGuildSettings(existingSettings.store, g, <<"tickets", "autoresponses", "statistics", "webhooks">>, <<>>, okWrite)
  IN IF existingSettings.raised THEN store
     ELSE IF isFirstTimeSetup /\ ~w.raised THEN w.store
     ELSE existingSettings.store

\* initializeGuildData(): initializeGuildDefaults for every guild of the client
RECURSIVE initializeGuildData(_, _, _, _)
initializeGuildData(store, guilds, okRead, okWrite) ==
  IF guilds = {} THEN store
  ELSE LET g == CHOOSE x \in guilds : TRUE IN
       initializeGuildData(initializeGuildDefaults(store, g, okRead, okWrite), guilds \ {g}, okRead, okWrite)

\* ===================================================================== model
\* the clock advances by a millisecond or by a whole cache lifetime
TickSteps == {1, CACHE_DURATION}

\* the features a patch names, and the patches (Object.entries order)
PatchFeatures == {"tickets"}

\* the features isFeatureEnabled is asked about
QueryFeatures == {"tickets", "autoroles"}

PatchEntries == [feature : PatchFeatures, enabled : BOOLEAN]

Patches ==
  {p \in UNION {[1..n -> PatchEntries] : n \in 0..Cardinality(PatchFeatures)} :
     \A i, j \in DOMAIN p : i # j => p[i].feature # p[j].feature}

\* the feature list written by initializeGuildDefaults, a caller of
\* dbManager.updateGuildSettings that bypasses the FeatureManager
DirectFeatureLists == {<<"tickets", "autoresponses", "statistics", "webhooks">>}

GrantLevels == {1, 3}

\* the users whose admin status is granted, revoked and looked up; the
\* registry is keyed by user and no operation touches another user's row
AdminUsers == {"U2"}

\* what is kept of the operation before the last one
Digest(r) ==
  [op |-> r.op, g |-> r.g, u |-> r.u, raised |-> r.raised, failed |-> r.failed,
   feats |-> r.feats, level |-> r.level, admin |-> r.admin, cached |-> r.cached,
   readBefore |-> r.readBefore, settings |-> r.settings]

Init ==
  /\ now = 1
  /\ ticks = 0
  /\ guildStore = [g \in StoreGuilds |-> NoRow]
  /\ featureCache = [g \in Guilds |-> NoEntry]
  /\ cacheExpiry = [g \in Guilds |-> 0]
  /\ adminStore = [u \in Users |-> NoAdminRow]
  /\ adminCache = [u \in Users |-> NoAdminEntry]
  /\ cmdPerms = [k \in Guilds \X Roles |-> NoRule]
  /\ guildCommands = [g \in Guilds |-> NoCatalog]
  /\ registerGuildCommandsFunction = "null"
  /\ applicationCommands = NoCatalog
  /\ adminActivityLog = <<>>
  /\ botStats = 0
  /\ calls = [i \in Slots |-> NoCall]
  /\ last = NoOp
  /\ prev = Digest(NoOp)

FC == [cache |-> featureCache, expiry |-> cacheExpiry]

\* where the clock stands relative to the lifetime of the guild's cache entry
\* when an operation starts: no entry was written, it was written at most
\* CACHE_DURATION ago ("fresh"), or longer ago ("stale")
featureEntry(g) ==
  IF cacheExpiry[g] = 0 THEN "none"
  ELSE IF now - (cacheExpiry[g] - CACHE_DURATION) <= CACHE_DURATION THEN "fresh"
  ELSE "stale"

\* the same for the user's admin cache entry
adminEntry(u) ==
  IF ~adminCache[u].has THEN "none"
  ELSE IF now - adminCache[u].timestamp < CACHE_TTL THEN "fresh"
  ELSE "stale"

gapSince(t) ==
  IF now = t THEN "same" ELSE IF now - t <= CACHE_DURATION THEN "within" ELSE "beyond"

Record(r) ==
  /\ last' = [r EXCEPT !.at = now, !.gap = gapSince(last.at)]
  /\ prev' = Digest(last)

Tick ==
  /\ ticks < MaxTicks
  /\ \E d \in TickSteps : now' = now + d
  /\ ticks' = ticks + 1
  /\ UNCHANGED <<guildStore, featureCache, cacheExpiry, adminStore, adminCache,
                 cmdPerms, guildCommands, last, prev,
                   registerGuildCommandsFunction, applicationCommands, adminActivityLog, botStats, calls>>

\* a call of featureManager.getEnabledFeatures(g)
GetEnabledFeatures ==
  \E g \in Guilds, ok \in BOOLEAN :
    \E r \in {getEnabledFeatures(guildStore, FC, g, now, ok)} :
    /\ (ok \/ r.made # <<>>)
    /\ guildStore' = r.store
    /\ featureCache' = r.C.cache
    /\ cacheExpiry' = r.C.expiry
    /\ Record([NoOp EXCEPT !.op = "getEnabledFeatures", !.g = g, !.feats = r.res,
                           !.made = r.made, !.failed = r.failed, !.entry = featureEntry(g)])
    /\ UNCHANGED <<now, ticks, adminStore, adminCache, cmdPerms, guildCommands,
                   registerGuildCommandsFunction, applicationCommands, adminActivityLog, botStats, calls>>

\* a call of featureManager.isFeatureEnabled(g, f)
IsFeatureEnabled ==
  \E g \in Guilds, f \in QueryFeatures, ok \in BOOLEAN :
    \E r \in {isFeatureEnabled(guildStore, FC, g, f, now, ok)} :
    /\ (ok \/ r.made # <<>>)
    /\ guildStore' = r.store
    /\ featureCache' = r.C.cache
    /\ cacheExpiry' = r.C.expiry
    /\ Record([NoOp EXCEPT !.op = "isFeatureEnabled", !.g = g, !.feat = f,
                           !.res = r.res, !.made = r.made, !.failed = r.failed,
                           !.entry = featureEntry(g)])
    /\ UNCHANGED <<now, ticks, adminStore, adminCache, cmdPerms, guildCommands,
                   registerGuildCommandsFunction, applicationCommands, adminActivityLog, botStats, calls>>

\* a call of featureManager.updateFeatures(g, patch)
UpdateFeatures ==
  \E g \in Guilds, patch \in Patches, ok1, ok2, ok3 \in BOOLEAN :
    \E r \in {updateFeatures(guildStore, FC, g, patch, now, ok1, ok2, ok3)} :
    /\ (ok1 \/ "getGuildSettings" \in r.failed)
    /\ (ok2 \/ "settings" \in r.failed)
    /\ (ok3 \/ "updateGuildSettings" \in r.failed)
    /\ guildStore' = r.store
    /\ featureCache' = r.C.cache
    /\ cacheExpiry' = r.C.expiry
    /\ Record([NoOp EXCEPT !.op = "updateFeatures", !.g = g, !.patch = patch,
                           !.readBefore =
                             IF last.op = "getEnabledFeatures" /\ last.g = g
                                  /\ last.at = now
                               THEN [has |-> TRUE, feats |-> last.feats]
                               ELSE [has |-> FALSE, feats |-> <<>>],
                           !.feats = r.res, !.raised = r.raised, !.made = r.made,
                           !.failed = r.failed, !.entry = featureEntry(g)])
    /\ UNCHANGED <<now, ticks, adminStore, adminCache, cmdPerms, guildCommands,
                   registerGuildCommandsFunction, applicationCommands, adminActivityLog, botStats, calls>>

\* a call of dbManager.updateGuildSettings(g, F, S) that bypasses the
\* FeatureManager: the store changes, the cache does not.  It is no operation
\* of the resolver and is not recorded in last/prev.
DirectUpdateGuildSettings ==
  \E g \in Guilds, F \in DirectFeatureLists, ok \in BOOLEAN :
    \E w \in {updateGuildSettings(guildStore, g, F, <<>>, ok)} :
    /\ ~w.raised
    /\ guildStore' = w.store
    /\ UNCHANGED <<now, ticks, featureCache, cacheExpiry, adminStore, adminCache,
                   cmdPerms, guildCommands, last, prev,
                   registerGuildCommandsFunction, applicationCommands, adminActivityLog, botStats, calls>>

NextFeat ==
  \/ Tick
  \/ GetEnabledFeatures
  \/ IsFeatureEnabled
  \/ UpdateFeatures
  \/ DirectUpdateGuildSettings

\* the Feature Flag Resolver
SpecFeat == Init /\ [][NextFeat]_vars

\* ------------------------------------------------------------ Admin Registry
\* a call of dbManager.isGlobalAdmin(u)
IsGlobalAdmin ==
  \E u \in AdminUsers, ok \in BOOLEAN :
    \E r \in {isGlobalAdmin(adminStore, adminCache, u, now, ok)} :
    /\ (ok \/ r.raised)
    /\ adminCache' = r.cache
    /\ Record([NoOp EXCEPT !.op = "isGlobalAdmin", !.u = u, !.admin = r.admin,
                           !.raised = r.raised, !.made = r.made,
                           !.failed = r.failed, !.entry = adminEntry(u)])
    /\ UNCHANGED <<now, ticks, guildStore, featureCache, cacheExpiry, adminStore,
                   cmdPerms, guildCommands,
                   registerGuildCommandsFunction, applicationCommands, adminActivityLog, botStats, calls>>

\* grant: a call of dbManager.addGlobalAdmin(u, username, level, grantedBy)
Grant ==
  \E u \in AdminUsers, level \in GrantLevels, ok \in BOOLEAN :
    \E r \in {addGlobalAdmin(adminStore, adminCache, u, level, ok)} :
    /\ adminStore' = r.store
    /\ adminCache' = r.cache
    /\ Record([NoOp EXCEPT !.op = "grant", !.u = u, !.level = level,
                           !.cached = [isAdmin |-> adminCache[u].isAdmin,
                                       level |-> adminCache[u].level],
                           !.raised = r.raised,
                           !.made = <<"addGlobalAdmin">>,
                           !.failed = IF r.raised THEN {"addGlobalAdmin"} ELSE {},
                           !.entry = adminEntry(u)])
    /\ UNCHANGED <<now, ticks, guildStore, featureCache, cacheExpiry, cmdPerms, guildCommands,
                   registerGuildCommandsFunction, applicationCommands, adminActivityLog, botStats, calls>>

\* revoke: a call of dbManager.removeGlobalAdmin(u)
Revoke ==
  \E u \in AdminUsers, ok \in BOOLEAN :
    \E r \in {removeGlobalAdmin(adminStore, adminCache, u, ok)} :
    /\ adminStore' = r.store
    /\ adminCache' = r.cache
    /\ Record([NoOp EXCEPT !.op = "revoke", !.u = u, !.raised = r.raised,
                           !.cached = [isAdmin |-> adminCache[u].isAdmin,
                                       level |-> adminCache[u].level],
                           !.res = (r.rowCount > 0),
                           !.made = <<"removeGlobalAdmin">>,
                           !.failed = IF r.raised THEN {"removeGlobalAdmin"} ELSE {},
                           !.entry = adminEntry(u)])
    /\ UNCHANGED <<now, ticks, guildStore, featureCache, cacheExpiry, cmdPerms, guildCommands,
                   registerGuildCommandsFunction, applicationCommands, adminActivityLog, botStats, calls>>

NextAdmin ==
  \/ Tick
  \/ IsGlobalAdmin
  \/ Grant
  \/ Revoke

\* the Admin Registry
SpecAdmin == Init /\ [][NextAdmin]_vars

\* ----------------------------------------------------------- both caches
\* The feature cache and the admin cache share no state: a behaviour
\* exercises the FeatureManager or the registry.
FeatureSide ==
  /\ adminStore = [u \in Users |-> NoAdminRow]
  /\ adminCache = [u \in Users |-> NoAdminEntry]
  /\ last.op \notin {"isGlobalAdmin", "grant", "revoke"}
  /\ NextFeat

RegistrySide ==
  /\ guildStore = [g \in StoreGuilds |-> NoRow]
  /\ cacheExpiry = [g \in Guilds |-> 0]
  /\ last.op \in {"none", "isGlobalAdmin", "grant", "revoke"}
  /\ NextAdmin

NextCaches ==
  \/ FeatureSide
  \/ RegistrySide

SpecCaches == Init /\ [][NextCaches]_vars

\* ------------------------------------------------------ the settings store
\* the feature lists and the settings maps written directly
StoreFeatureLists ==
  {<<>>, <<"tickets", "autoresponses">>, <<"autoresponses", "tickets">>}

StoreSettings == {<<>>, <<<<"testSetting", "testValue">>, <<"botPrefix", "!">>>>}

\* a call of dbManager.updateGuildSettings(g, F, S)
UpdateGuildSettings ==
  \E g \in StoreGuilds, F \in StoreFeatureLists, S \in StoreSettings, ok \in BOOLEAN :
    \E w \in {updateGuildSettings(guildStore, g, F, S, ok)} :
    /\ guildStore' = w.store
    /\ Record([NoOp EXCEPT !.op = "updateGuildSettings", !.g = g, !.feats = F,
                           !.settings = S, !.raised = w.raised,
                           !.made = <<"updateGuildSettings">>,
                           !.failed = IF w.raised THEN {"updateGuildSettings"} ELSE {}])
    /\ UNCHANGED <<now, ticks, featureCache, cacheExpiry, adminStore, adminCache,
                   cmdPerms, guildCommands,
                   registerGuildCommandsFunction, applicationCommands, adminActivityLog, botStats, calls>>

\* a call of dbManager.getGuildSettings(g)
GetGuildSettings ==
  \E g \in StoreGuilds, ok \in BOOLEAN :
    \E r \in {getGuildSettings(guildStore, g, ok)} :
    /\ guildStore' = r.store
    /\ Record([NoOp EXCEPT !.op = "getGuildSettings", !.g = g,
                           !.feats = r.enabledFeatures, !.settings = r.settings,
                           !.id = r.id, !.created = ~guildStore[g].exists,
                           !.raised = r.raised, !.made = <<"getGuildSettings">>,
                           !.failed = IF r.raised THEN {"getGuildSettings"} ELSE {}])
    /\ UNCHANGED <<now, ticks, featureCache, cacheExpiry, adminStore, adminCache,
                   cmdPerms, guildCommands,
                   registerGuildCommandsFunction, applicationCommands, adminActivityLog, botStats, calls>>

NextStore ==
  \/ UpdateGuildSettings
  \/ GetGuildSettings

\* the guild_settings table under direct reads and writes
SpecStore == Init /\ [][NextStore]_vars

\* ------------------------------------------------------- permission checks
\* the command invocations: every command of the catalogue, the ticket
\* command with each of its subcommands
CheckCalls ==
  {<<"ticket", "create">>, <<"ticket", "close">>, <<"ticket", "setup">>}
    \cup {<<commandsData[i], "">> : i \in {j \in DOMAIN commandsData : commandsData[j] # "ticket"}}

\* the commands that role rules name
RuleCommands == {"stats"}

DefaultAdminId == "U2"

\* the user_permissions table: no operation of the model writes it
userPermissionRows == {}

\* validFeatures of the route PUT /api/settings/:guildId/features
validFeatures_lax ==
  <<"tickets", "autoresponses", "statistics", "webhooks", "autoroles">>

validFeatures == <<"tickets", "autoresponses", "statistics", "webhooks">>

\* the feature names a request body may carry, and the bodies
RouteFeatures == PatchFeatures \cup {"autoroles"}

RoutePatches ==
  {p \in UNION {[1..n -> [feature : RouteFeatures, enabled : BOOLEAN]] : n \in 0..2} :
     /\ \A i, j \in DOMAIN p : i # j => p[i].feature # p[j].feature
     /\ \A i \in DOMAIN p : p[i].feature = "autoroles" => p[i].enabled}

\* GUILD_ID of the environment; "" when it is not set
GuildIds == {"", "G1"}

\* PUT /api/settings/:guildId/features of an authenticated request: the
\* names of the body are validated (400), updateFeatures is awaited (500 when
\* it rejects), the installed registration function is awaited, and the
\* answer carries the enabled features and commandsUpdated.
putFeatures(store, C, cat, fn, g, features, t, ok1, ok2, ok3, okPut) ==
  LET w == updateFeatures(store, C, g, features, t, ok1, ok2, ok3)
      c == IF fn # "null" THEN registerGuildCommands(w.store, w.C, cat, g, t, TRUE, okPut)
           ELSE [store |-> w.store, C |-> w.C, cat |-> cat, sent |-> <<>>,
                 made |-> <<>>, failed |-> {}]
      e == getEnabledFeatures(c.store, c.C, g, t, TRUE)
      none == [enabledFeatures |-> <<>>, commandsUpdated |-> FALSE]
  IN
  IF \E i \in DOMAIN features : ~Includes(validFeatures, features[i].feature)
    THEN [status |-> 400, body |-> none, store |-> store, C |-> C, cat |-> cat,
          feats |-> <<>>, resyncs |-> 0, sent |-> <<>>, made |-> <<>>, failed |-> {}]
  ELSE IF w.raised
    THEN [status |-> 500, body |-> none, store |-> w.store, C |-> w.C, cat |-> cat,
          feats |-> w.res, resyncs |-> 0, sent |-> <<>>, made |-> w.made,
          failed |-> w.failed]
  ELSE [status |-> 200,
        body |-> [enabledFeatures |-> e.res, commandsUpdated |-> (fn # "null")],
        store |-> e.store, C |-> e.C, cat |-> c.cat, feats |-> w.res,
        resyncs |-> IF fn # "null" THEN 1 ELSE 0, sent |-> c.sent,
        made |-> w.made \o c.made \o e.made,
        failed |-> w.failed \cup c.failed \cup e.failed]

\* the guild_settings and global_admins part of the state is left alone
FeaturesUnchanged == UNCHANGED <<guildStore, featureCache, cacheExpiry, guildCommands,
                   registerGuildCommandsFunction, applicationCommands, adminActivityLog, botStats, calls>>

\* no interaction is being handled
Idle == last.op = "none"

\* interactionCreate, a chat input command: checkCommandPermission is awaited
\* with the interaction.  The answer, or the rejection, is kept in last until
\* Dispatch.  The failure flags of store calls that are not made are TRUE.
\* The admin lookup of getUserPermissions is answered as that of
\* hasPermission, which runs in the same instant.
CheckCommandPermission ==
  /\ Idle
  /\ \E inGuild \in BOOLEAN, g \in Guilds, u \in Users, call \in CheckCalls,
        userRoles \in SUBSET Roles, bits \in SUBSET PermissionFlagsBits,
        botOwner \in BOOLEAN :
       /\ inGuild \/ (userRoles = {} /\ bits = {} /\ ~botOwner)
       /\ \E ok1, okR, okA, okP \in BOOLEAN :
            /\ (~inGuild \/ isGuildOwner(g, u)) => (ok1 /\ okR /\ okA /\ okP)
            /\ \E r \in {checkCommandPermission(adminStore, adminCache, cmdPerms, inGuild,
                           g, u, userRoles, bits, botOwner,
                           <<u, g>> \in userPermissionRows, call[1], call[2],
                           now, ok1, okR, okA, okP, okA)} :
                 /\ ok1 \/ "isGlobalAdmin" \in r.failed
                 /\ okR \/ "getUserAllowedCommands" \in r.failed
                 /\ okA \/ "isGlobalAdmin#2" \in r.failed
                 /\ okP \/ "getUserPermissions" \in r.failed
                 /\ adminCache' = r.cache
                 /\ last' = [NoOp EXCEPT !.op = "check", !.inGuild = inGuild, !.g = g,
                               !.u = u, !.cmd = call[1], !.sub = call[2],
                               !.roles = userRoles, !.bits = bits,
                               !.botOwner = botOwner, !.res = r.res,
                               !.raised = r.raised, !.made = r.made,
                               !.failed = r.failed,
                               !.admin =
                                 IF r.cache[u].has /\ now - r.cache[u].timestamp < CACHE_TTL
                                   THEN [isAdmin |-> r.cache[u].isAdmin,
                                         level |-> r.cache[u].level]
                                   ELSE [isAdmin |-> FALSE, level |-> 0]]
       /\ FeaturesUnchanged
       /\ UNCHANGED <<now, ticks, adminStore, cmdPerms, prev>>

\* the handler acts on the answer (the refusal is replied, or the command is
\* logged and executed) and the interaction is over
Dispatch ==
  /\ last.op \in {"check", "putFeatures", "ready", "interaction"}
  /\ last' = NoOp
  /\ FeaturesUnchanged
  /\ UNCHANGED <<now, ticks, adminStore, adminCache, cmdPerms, prev>>

\* a call of dbManager.updateCommandPermissions(g, role, data)
UpdateCommandPermissions ==
  \E g \in Guilds, roleId \in Roles, allowedCommands, deniedCommands \in SUBSET RuleCommands :
    /\ Idle
    /\ allowedCommands \cup deniedCommands # {}
    /\ cmdPerms' = updateCommandPermissions(cmdPerms, g, roleId, allowedCommands,
                                            deniedCommands)
    /\ FeaturesUnchanged
    /\ UNCHANGED <<now, ticks, adminStore, adminCache, last, prev>>

\* a call of dbManager.deleteCommandPermissions(g, role)
DeleteCommandPermissions ==
  \E g \in Guilds, roleId \in Roles :
    /\ Idle
    /\ cmdPerms[<<g, roleId>>].exists
    /\ cmdPerms' = deleteCommandPermissions(cmdPerms, g, roleId)
    /\ FeaturesUnchanged
    /\ UNCHANGED <<now, ticks, adminStore, adminCache, last, prev>>

\* the migration addDefaultGlobalAdmin: the default admin is looked up and,
\* unless the registry reports it as an admin, granted level 3.  A failing
\* query ends the migration.
AddDefaultGlobalAdmin ==
  \E ok1, ok2 \in BOOLEAN :
    \E existingAdmin \in {isGlobalAdmin(adminStore, adminCache, DefaultAdminId, now, ok1)} :
      \E a \in {addGlobalAdmin(adminStore, existingAdmin.cache, DefaultAdminId, 3, ok2)} :
        /\ Idle
        /\ ok1 \/ existingAdmin.raised
        /\ ok2 \/ (~existingAdmin.raised /\ ~existingAdmin.admin.isAdmin)
        /\ IF existingAdmin.raised \/ existingAdmin.admin.isAdmin
             THEN adminStore' = adminStore /\ adminCache' = existingAdmin.cache
             ELSE adminStore' = a.store /\ adminCache' = a.cache
        /\ FeaturesUnchanged
        /\ UNCHANGED <<now, ticks, cmdPerms, last, prev>>

NextPerm ==
  \/ CheckCommandPermission
  \/ Dispatch
  \/ UpdateCommandPermissions
  \/ DeleteCommandPermissions
  \/ AddDefaultGlobalAdmin

\* the Command Permission Resolver, with the role rules and the registry
\* changing between interactions
SpecPerm == Init /\ [][NextPerm]_vars

\* a request PUT /api/settings/:guildId/features.  The failure flags of calls
\* that are not made are TRUE.
PutFeatures ==
  /\ Idle
  /\ \E g \in Guilds, features \in RoutePatches, ok1, ok2, ok3, okPut \in BOOLEAN :
       \E r \in {putFeatures(guildStore, FC, guildCommands, registerGuildCommandsFunction, g, features, now, ok1, ok2, ok3, okPut)} :
         /\ ok1 \/ "getGuildSettings" \in r.failed
         /\ ok2 \/ "settings" \in r.failed
         /\ ok3 \/ "updateGuildSettings" \in r.failed
         /\ okPut \/ "rest.put" \in r.failed
         /\ guildStore' = r.store
         /\ featureCache' = r.C.cache
         /\ cacheExpiry' = r.C.expiry
         /\ guildCommands' = r.cat
         /\ last' = [NoOp EXCEPT !.op = "putFeatures", !.g = g, !.patch = features,
                                 !.status = r.status, !.body = r.body,
                                 !.feats = r.feats, !.resyncs = r.resyncs,
                                 !.sent = r.sent, !.before = guildCommands[g],
                                 !.made = r.made, !.failed = r.failed, !.at = now]
         /\ UNCHANGED <<now, ticks, adminStore, adminCache, cmdPerms, prev,
                        registerGuildCommandsFunction, applicationCommands, adminActivityLog, botStats, calls>>

NextGate ==
  \/ PutFeatures
  \/ CheckCommandPermission
  \/ Dispatch

\* the permission check of a guild whose features the dashboard toggles
SpecGate == Init /\ [][NextGate]_vars

\* client.once("ready"): the registration function is installed, the catalog
\* is registered by registerCommands and the guild data is initialized.
Ready ==
  /\ Idle
  /\ registerGuildCommandsFunction = "null"
  /\ \E GUILD_ID \in GuildIds, okPut, okRead, okWrite \in BOOLEAN :
       \E r \in {registerCommands(guildCommands, applicationCommands, GUILD_ID, okPut)} :
         /\ okWrite
         /\ registerGuildCommandsFunction' = "registerGuildCommands"
         /\ guildCommands' = r.cat
         /\ applicationCommands' = r.app
         /\ guildStore' = initializeGuildData(guildStore, Guilds, okRead, okWrite)
         /\ last' = [NoOp EXCEPT !.op = "ready", !.at = now]
         /\ UNCHANGED <<now, ticks, featureCache, cacheExpiry, adminStore, adminCache,
                        cmdPerms, prev, adminActivityLog, botStats, calls>>

NextSync ==
  \/ Tick
  \/ Ready
  \/ PutFeatures
  \/ Dispatch

\* the process from its start: the API server listens before the client is
\* ready
SpecSync == Init /\ [][NextSync]_vars

\* the levels a request body carries (0: none) and the longest log followed
RouteLevels == {0, 2, 5}

MaxLog == 3

\* a request POST /api/admin/admins of the authenticated user.  The failure
\* flags of calls that are not made are TRUE.
PostAdmins ==
  /\ Idle
  /\ Len(adminActivityLog) < MaxLog
  /\ \E user \in Users, userId \in Users \cup {""}, level \in RouteLevels, okAuth, okAdd, okLog \in BOOLEAN :
       \E r \in {postAdmins(adminStore, adminCache, adminActivityLog, user, userId, level, now, okAuth, okAdd, okLog)} :
         /\ okAuth \/ (r.status = 0 /\ r.cache = adminCache)
         /\ okAdd \/ (r.status = 500 /\ r.store = adminStore)
         /\ okLog \/ (r.status = 500 /\ okAdd)
         /\ (r.status \in {0, 400, 403}) => (okAdd /\ okLog)
         /\ adminStore' = r.store
         /\ adminCache' = r.cache
         /\ adminActivityLog' = r.log
         /\ UNCHANGED <<now, ticks, guildStore, featureCache, cacheExpiry, cmdPerms,
                        guildCommands, registerGuildCommandsFunction,
                        applicationCommands, botStats, last, prev, calls>>

\* a request DELETE /api/admin/admins/:userId of the authenticated user
DeleteAdmins ==
  /\ Idle
  /\ Len(adminActivityLog) < MaxLog
  /\ \E user \in Users, userId \in Users, okAuth, okRemove, okLog \in BOOLEAN :
       \E r \in {deleteAdmins(adminStore, adminCache, adminActivityLog, user, userId, now, okAuth, okRemove, okLog)} :
         /\ okAuth \/ (r.status = 0 /\ r.cache = adminCache)
         /\ okRemove \/ (r.status = 500 /\ r.store = adminStore)
         /\ okLog \/ (r.status = 500 /\ okRemove)
         /\ (r.status \in {0, 400, 403, 404}) => (okRemove /\ okLog)
         /\ adminStore' = r.store
         /\ adminCache' = r.cache
         /\ adminActivityLog' = r.log
         /\ UNCHANGED <<now, ticks, guildStore, featureCache, cacheExpiry, cmdPerms,
                        guildCommands, registerGuildCommandsFunction,
                        applicationCommands, botStats, last, prev, calls>>

NextAudit ==
  \/ AddDefaultGlobalAdmin
  \/ PostAdmins
  \/ DeleteAdmins

\* the admin registry as the migration and the dashboard's routes write it
SpecAudit == Init /\ [][NextAudit]_vars

\* the invocations followed through the whole handler, the permission bits
\* and the roles of the members (no role rule exists in SpecDispatch), and
\* the most rows of bot_stats followed
DispatchCalls ==
  {<<"ticket", "create">>, <<"ticket", "close">>, <<"autoresponse", "">>, <<"autorole", "">>, <<"embed", "">>}

DispatchBits == {{}, {"ManageChannels"}, {"Administrator"}}

DispatchRoles == {{}}

MaxStats == 2

\* interactionCreate for a chat input command, from the check to the reply.
\* The failure flags of calls that are not made are TRUE.
InteractionCreate ==
  /\ Idle
  /\ botStats < MaxStats
  /\ \E inGuild \in BOOLEAN, g \in Guilds, u \in Users, call \in DispatchCalls, userRoles \in DispatchRoles, bits \in DispatchBits, botOwner \in BOOLEAN :
       /\ inGuild \/ (bits = {} /\ ~botOwner)
       /\ \E ok1, okR, okA, okP, okLog, okF \in BOOLEAN :
            \E p \in {checkCommandPermission(adminStore, adminCache, cmdPerms, inGuild, g, u, userRoles, bits, botOwner, FALSE, call[1], call[2], now, ok1, okR, okA, okP, okA)} :
            \E l \in {logCommand(botStats, okLog)} :
            \E f \in {isFeatureEnabled(guildStore, FC, g, executeFeature(call[1]), now, okF)} :
            \E r \in {interactionCreate(p, l, f, guildStore, FC, botStats, call[1])} :
              /\ ok1 \/ "isGlobalAdmin" \in r.failed
              /\ okR \/ "getUserAllowedCommands" \in r.failed
              /\ okA \/ "isGlobalAdmin#2" \in r.failed
              /\ okP \/ "getUserPermissions" \in r.failed
              /\ okLog \/ "logCommand" \in r.failed
              /\ okF \/ "getGuildSettings" \in r.failed
              /\ adminCache' = r.cache
              /\ guildStore' = r.store
              /\ featureCache' = r.C.cache
              /\ cacheExpiry' = r.C.expiry
              /\ botStats' = r.stats
              /\ last' = [NoOp EXCEPT !.op = "interaction", !.inGuild = inGuild, !.g = g,
                            !.u = u, !.cmd = call[1], !.sub = call[2],
                            !.roles = userRoles, !.bits = bits, !.botOwner = botOwner,
                            !.res = r.res, !.outcome = r.outcome, !.made = r.made,
                            !.failed = r.failed, !.at = now]
       /\ UNCHANGED <<now, ticks, adminStore, cmdPerms, guildCommands,
                      registerGuildCommandsFunction, applicationCommands,
                      adminActivityLog, calls, prev>>

NextDispatch ==
  \/ InteractionCreate
  \/ PutFeatures
  \/ Dispatch

\* the handling of invocations in a guild whose features the dashboard toggles
SpecDispatch == Init /\ [][NextDispatch]_vars

\* ------------------------------------------------- switching a feature on
\* the command the table maps to the feature
commandOf(f) == CHOOSE c \in CommandNames : COMMAND_FEATURE_MAP(c) = f

\* the PUT features route with the body {features: {f: enabled}}, every
\* store call and the publication succeeding
SetFeature(f, enabled) ==
  \E g \in Guilds :
    \E r \in {putFeatures(guildStore, FC, guildCommands, registerGuildCommandsFunction, g, <<[feature |-> f, enabled |-> enabled]>>, now, TRUE, TRUE, TRUE, TRUE)} :
      /\ guildStore' = r.store
      /\ featureCache' = r.C.cache
      /\ cacheExpiry' = r.C.expiry
      /\ guildCommands' = r.cat
      /\ last' = [NoOp EXCEPT !.op = "putFeatures", !.g = g,
                              !.patch = <<[feature |-> f, enabled |-> enabled]>>,
                              !.status = r.status, !.body = r.body,
                              !.feats = r.feats, !.resyncs = r.resyncs,
                              !.sent = r.sent, !.before = guildCommands[g],
                              !.made = r.made, !.failed = r.failed, !.at = now]
      /\ UNCHANGED <<now, ticks, adminStore, adminCache, cmdPerms, prev,
                     registerGuildCommandsFunction, applicationCommands, adminActivityLog, botStats, calls>>

\* the dashboard switches a feature of the command-to-feature table on or off
SetMapped ==
  /\ Idle
  /\ \E f \in {COMMAND_FEATURE_MAP(c) : c \in CommandNames} \ {""}, enabled \in BOOLEAN : SetFeature(f, enabled)

\* the dashboard switches the feature on
SwitchOn(f) == Idle /\ SetFeature(f, TRUE)

NextSwitch ==
  \/ Ready
  \/ SetMapped
  \/ Dispatch

\* a request for the feature is handled whenever requests keep being
\* accepted (strong fairness of SwitchOn(f), which is enabled exactly when
\* Idle holds)
SwitchOnFair(f) == <>[](~Idle) \/ []<><<SwitchOn(f)>>_vars

\* the client becomes ready (strong fairness of Ready, which is enabled
\* exactly when Idle holds and no registration function is installed)
ReadyFair == <>[](~(Idle /\ registerGuildCommandsFunction = "null")) \/ []<><<Ready>>_vars

\* The dashboard keeps asking for every feature of the table: the client
\* becomes ready, every request received is handled and answered.
SpecSwitch ==
  /\ Init
  /\ [][NextSwitch]_vars
  /\ WF_vars(Dispatch)
  /\ ReadyFair
  /\ \A f \in {COMMAND_FEATURE_MAP(c) : c \in CommandNames} \ {""} : SwitchOnFair(f)

\* ------------------------------------------------------- overlapping calls
\* Every await of a store query is two steps: the store executes the
\* statement (DbExec), and later the call resumes with the answer (Resume)
\* and runs to its next await or to its end.  The store answers every
\* statement; the only error is the INSERT of a row that exists.
inFlight(c) == c.op # "idle" /\ c.stage # "done"

FeatureOps == {"getEnabledFeatures", "updateFeatures"}

AdminOps == {"isGlobalAdmin", "grant", "revoke"}

\* the call rec starts in slot i
Begin(i, rec) ==
  calls' = [j \in Slots |->
              IF j = i THEN [rec EXCEPT !.with = {k \in Slots \ {i} : inFlight(calls[k])}]
              ELSE [calls[j] EXCEPT !.with = @ \ {i}]]

\* the feature calls and the admin calls are followed apart
FeatureCallsOnly ==
  /\ adminStore = [u \in Users |-> NoAdminRow]
  /\ adminCache = [u \in Users |-> NoAdminEntry]
  /\ \A j \in Slots : calls[j].op \notin AdminOps

AdminCallsOnly ==
  /\ guildStore = [g \in StoreGuilds |-> NoRow]
  /\ cacheExpiry = [g \in Guilds |-> 0]
  /\ \A j \in Slots : calls[j].op \notin FeatureOps

RaceUnchanged ==
  UNCHANGED <<now, ticks, cmdPerms, guildCommands, registerGuildCommandsFunction, applicationCommands, adminActivityLog, botStats, last, prev>>

\* getEnabledFeatures(g) is called: the cache is looked up, and on a miss the
\* SELECT of getGuildSettings is sent
StartGetEnabledFeatures ==
  \E i \in Slots, g \in Guilds :
    \E c \in {getCachedFeatures(FC, g, now)} :
      /\ ~inFlight(calls[i])
      /\ FeatureCallsOnly
      /\ featureCache' = c.C.cache
      /\ cacheExpiry' = c.C.expiry
      /\ Begin(i, IF c.hit
                    THEN [NoCall EXCEPT !.op = "getEnabledFeatures", !.key = g, !.res = c.val]
                    ELSE [NoCall EXCEPT !.op = "getEnabledFeatures", !.key = g, !.missed = TRUE,
                                        !.stage = "select1", !.phase = "q"])
      /\ UNCHANGED <<guildStore, adminStore, adminCache>>
      /\ RaceUnchanged

\* updateFeatures(g, patch) is called: its getEnabledFeatures looks the cache
\* up; on a hit the new array is computed and the SELECT of the second
\* getGuildSettings is sent
StartUpdateFeatures ==
  \E i \in Slots, g \in Guilds, patch \in Patches :
    \E c \in {getCachedFeatures(FC, g, now)} :
      /\ ~inFlight(calls[i])
      /\ FeatureCallsOnly
      /\ featureCache' = c.C.cache
      /\ cacheExpiry' = c.C.expiry
      /\ Begin(i, IF c.hit
                    THEN [NoCall EXCEPT !.op = "updateFeatures", !.key = g, !.patch = patch,
                                        !.cur = c.val, !.newFeatures = applyPatch(c.val, patch),
                                        !.stage = "select2", !.phase = "q"]
                    ELSE [NoCall EXCEPT !.op = "updateFeatures", !.key = g, !.patch = patch,
                                        !.missed = TRUE, !.stage = "select1", !.phase = "q"])
      /\ UNCHANGED <<guildStore, adminStore, adminCache>>
      /\ RaceUnchanged

\* a write of the user's row is awaited by some call
writeInFlight(u) ==
  \E j \in Slots : inFlight(calls[j]) /\ calls[j].op \in {"grant", "revoke"} /\ calls[j].key = u

\* isGlobalAdmin(u) is called: a fresh cache entry is returned, else the
\* SELECT is sent
StartIsGlobalAdmin ==
  \E i \in Slots, u \in AdminUsers :
    /\ ~inFlight(calls[i])
    /\ AdminCallsOnly
    /\ LET cached == adminCache[u]
           revoked == adminStore[u].exists /\ ~adminStore[u].active /\ ~writeInFlight(u)
       IN Begin(i, IF cached.has /\ now - cached.timestamp < CACHE_TTL
                     THEN [NoCall EXCEPT !.op = "isGlobalAdmin", !.key = u,
                                         !.admin = [isAdmin |-> cached.isAdmin, level |-> cached.level],
                                         !.revokedAtStart = revoked]
                     ELSE [NoCall EXCEPT !.op = "isGlobalAdmin", !.key = u, !.missed = TRUE,
                                         !.stage = "selectAdmin", !.phase = "q",
                                         !.revokedAtStart = revoked])
    /\ UNCHANGED <<guildStore, featureCache, cacheExpiry, adminStore, adminCache>>
    /\ RaceUnchanged

\* addGlobalAdmin(u, username, level, grantedBy) is called: the upsert is sent
StartGrant ==
  \E i \in Slots, u \in AdminUsers, level \in GrantLevels :
    /\ ~inFlight(calls[i])
    /\ AdminCallsOnly
    /\ Begin(i, [NoCall EXCEPT !.op = "grant", !.key = u, !.level = level,
                               !.stage = "upsertAdmin", !.phase = "q"])
    /\ UNCHANGED <<guildStore, featureCache, cacheExpiry, adminStore, adminCache>>
    /\ RaceUnchanged

\* removeGlobalAdmin(u) is called: the UPDATE is sent
StartRevoke ==
  \E i \in Slots, u \in AdminUsers :
    /\ ~inFlight(calls[i])
    /\ AdminCallsOnly
    /\ Begin(i, [NoCall EXCEPT !.op = "revoke", !.key = u,
                               !.stage = "updateAdmin", !.phase = "q"])
    /\ UNCHANGED <<guildStore, featureCache, cacheExpiry, adminStore, adminCache>>
    /\ RaceUnchanged

\* the answer of the store to the statement the call awaits, and the store
\* after it
dbAnswer(c) ==
  CASE c.stage \in {"select1", "select2"} ->
         [reply |-> selectGuildSettings(guildStore, c.key), gs |-> guildStore, as |-> adminStore]
    [] c.stage \in {"insert1", "insert2"} ->
         [reply |-> insertGuildSettings(guildStore, c.key).reply,
          gs |-> insertGuildSettings(guildStore, c.key).store, as |-> adminStore]
    [] c.stage = "upsert" ->
         [reply |-> NoReply,
          gs |-> updateGuildSettings(guildStore, c.key, c.newFeatures, c.settings, TRUE).store,
          as |-> adminStore]
    [] c.stage = "selectAdmin" ->
         [reply |-> IF adminStore[c.key].exists /\ adminStore[c.key].active
                      THEN [NoReply EXCEPT !.found = TRUE, !.isAdmin = TRUE, !.level = adminStore[c.key].level]
                      ELSE NoReply,
          gs |-> guildStore, as |-> adminStore]
    [] c.stage = "upsertAdmin" ->
         [reply |-> NoReply, gs |-> guildStore,
          as |-> addGlobalAdmin(adminStore, adminCache, c.key, c.level, TRUE).store]
    [] OTHER ->
         [reply |-> NoReply, gs |-> guildStore,
          as |-> removeGlobalAdmin(adminStore, adminCache, c.key, TRUE).store]

\* the store executes the statement a call awaits
DbExec ==
  \E i \in Slots :
    /\ inFlight(calls[i])
    /\ calls[i].phase = "q"
    /\ \E d \in {dbAnswer(calls[i])} :
         /\ guildStore' = d.gs
         /\ adminStore' = d.as
         /\ calls' = [j \in Slots |->
                        IF j = i THEN [calls[i] EXCEPT !.phase = "r", !.reply = d.reply]
                        ELSE IF inFlight(calls[j]) /\ calls[j].key = calls[i].key
                                  /\ calls[i].stage \in {"upsert", "upsertAdmin", "updateAdmin"}
                          THEN [calls[j] EXCEPT !.dirty = TRUE]
                        ELSE calls[j]]
    /\ UNCHANGED <<featureCache, cacheExpiry, adminCache>>
    /\ RaceUnchanged

\* getEnabledFeatures has its array: the call returns it, or updateFeatures
\* goes on with it
afterRead(c, cur) ==
  IF c.op = "getEnabledFeatures" THEN [c EXCEPT !.stage = "done", !.phase = "r", !.res = cur]
  ELSE [c EXCEPT !.cur = cur, !.newFeatures = applyPatch(cur, c.patch),
                 !.stage = "select2", !.phase = "q"]

\* the call resumes with the answer: the call and the feature cache after it
resumeFeature(c, C, t) ==
  CASE c.stage = "select1" ->
         IF c.reply.found
           THEN [call |-> afterRead(c, c.reply.feats), C |-> setCachedFeatures(C, c.key, c.reply.feats, t)]
           ELSE [call |-> [c EXCEPT !.stage = "insert1", !.phase = "q"], C |-> C]
    [] c.stage = "insert1" ->
         IF c.reply.raised
           THEN [call |-> afterRead(c, failOpenFeatures), C |-> C]
           ELSE [call |-> afterRead(c, c.reply.feats), C |-> setCachedFeatures(C, c.key, c.reply.feats, t)]
    [] c.stage = "select2" ->
         IF c.reply.found
           THEN [call |-> [c EXCEPT !.settings = c.reply.settings, !.stage = "upsert", !.phase = "q"], C |-> C]
           ELSE [call |-> [c EXCEPT !.stage = "insert2", !.phase = "q"], C |-> C]
    [] c.stage = "insert2" ->
         IF c.reply.raised
           THEN [call |-> [c EXCEPT !.stage = "done", !.phase = "r", !.raised = TRUE], C |-> C]
           ELSE [call |-> [c EXCEPT !.settings = c.reply.settings, !.stage = "upsert", !.phase = "q"], C |-> C]
    [] OTHER ->
         [call |-> [c EXCEPT !.stage = "done", !.phase = "r", !.res = c.newFeatures],
          C |-> setCachedFeatures(C, c.key, c.newFeatures, t)]

\* the same for the calls of the registry: the call and the admin cache
resumeAdmin(c, cache, t) ==
  IF c.stage = "selectAdmin"
    THEN [call |-> [c EXCEPT !.stage = "done", !.phase = "r",
                             !.admin = [isAdmin |-> c.reply.isAdmin, level |-> c.reply.level]],
          cache |-> [cache EXCEPT ![c.key] = [has |-> TRUE, isAdmin |-> c.reply.isAdmin,
                                              level |-> c.reply.level, timestamp |-> t]]]
    ELSE [call |-> [c EXCEPT !.stage = "done", !.phase = "r"],
          cache |-> clearAdminCache(cache, c.key)]

\* a call resumes with the answer of the store
Resume ==
  \E i \in Slots :
    /\ inFlight(calls[i])
    /\ calls[i].phase = "r"
    /\ IF calls[i].op \in FeatureOps
         THEN \E r \in {resumeFeature(calls[i], FC, now)} :
                /\ calls' = [calls EXCEPT ![i] = r.call]
                /\ featureCache' = r.C.cache
                /\ cacheExpiry' = r.C.expiry
                /\ adminCache' = adminCache
         ELSE \E r \in {resumeAdmin(calls[i], adminCache, now)} :
                /\ calls' = [calls EXCEPT ![i] = r.call]
                /\ adminCache' = r.cache
                /\ featureCache' = featureCache
                /\ cacheExpiry' = cacheExpiry
    /\ UNCHANGED <<guildStore, adminStore>>
    /\ RaceUnchanged

NextRace ==
  \/ StartGetEnabledFeatures
  \/ StartUpdateFeatures
  \/ StartIsGlobalAdmin
  \/ StartGrant
  \/ StartRevoke
  \/ DbExec
  \/ Resume

\* calls of the FeatureManager, or of the registry, that overlap
SpecRace == Init /\ [][NextRace]_vars

\* ==================================================================== claims
NotAdmin == [isAdmin |-> FALSE, level |-> 0]

\* C5: cache invalidation on admin status change.  The isGlobalAdmin(u) that
\* directly follows a completed revoke(u) queries the store and returns
\* {false, 0}; the one that directly follows a completed grant(u, level)
\* queries the store and returns {true, level}; whatever the cache held before
\* and however much time passed in between.
C5_CacheInvalidation ==
  (last.op = "isGlobalAdmin" /\ ~prev.raised /\ prev.u = last.u /\ ~last.raised) =>
    /\ prev.op = "revoke" => (last.admin = NotAdmin /\ last.made = <<"isGlobalAdmin">>)
    /\ prev.op = "grant" =>
         /\ last.admin = [isAdmin |-> TRUE, level |-> prev.level]
         /\ last.made = <<"isGlobalAdmin">>

\* a revoke of a user cached as admin, then a lookup that says not admin
C5_WitnessRevoke ==
  /\ last.op = "isGlobalAdmin" /\ ~last.raised /\ last.admin = NotAdmin
  /\ prev.op = "revoke" /\ ~prev.raised /\ prev.u = last.u
  /\ prev.cached.isAdmin

\* C6: cache write-through.  Within one cache lifetime after a successful
\* updateFeatures(G, patch), with no other resolver operation in between,
\* getEnabledFeatures(G) returns the new set and isFeatureEnabled(G, f) tells
\* whether f is in it, both without any store call.
C6_WriteThrough ==
  (prev.op = "updateFeatures" /\ ~prev.raised /\ last.g = prev.g
     /\ last.gap \in {"same", "within"}) =>
    /\ last.op = "getEnabledFeatures" => (last.feats = prev.feats /\ last.made = <<>>)
    /\ last.op = "isFeatureEnabled" =>
         (last.res = Includes(prev.feats, last.feat) /\ last.made = <<>>)

\* tickets was disabled by the update and the next isFeatureEnabled says so,
\* although the store holds tickets again
C6_Witness ==
  /\ prev.op = "updateFeatures" /\ ~prev.raised /\ ~Includes(prev.feats, "tickets")
  /\ last.op = "isFeatureEnabled" /\ last.g = prev.g /\ last.feat = "tickets"
  /\ last.res = FALSE /\ last.made = <<>>
  /\ Includes(rowFeatures(guildStore[last.g]), "tickets")

C8_FailOpenAllFeatures ==
  (last.op = "getEnabledFeatures" /\ last.failed # {}) =>
    /\ FeatureName \subseteq Elems(last.feats)
    /\ \A c \in CommandNames :
         COMMAND_FEATURE_MAP(c) # "" => Includes(last.feats, COMMAND_FEATURE_MAP(c))

\* the commands denied by the rule of any of the roles
deniedUnion(g, userRoles) == UNION {cmdPerms[<<g, r>>].denied : r \in userRoles}

\* the feature the command is mapped to is one the resolver reports disabled
featureDisabled(g, commandName) ==
  /\ COMMAND_FEATURE_MAP(commandName) # ""
  /\ ~isFeatureEnabled(guildStore, FC, g, COMMAND_FEATURE_MAP(commandName), now, TRUE).res

activeAdmin(u) == adminStore[u].exists /\ adminStore[u].active

\* C1: feature gate.  A check of a command that COMMAND_FEATURE_MAP maps to a
\* feature disabled for the guild returns false, whoever the caller is.
C1_FeatureGate ==
  (last.op = "check" /\ last.inGuild /\ ~last.raised /\ featureDisabled(last.g, last.cmd))
    => last.res = FALSE

\* C2: deny precedence as claimed.  For a user who is neither the guild owner
\* nor an active global admin, a command in the union of the denied commands
\* of the user's roles is refused, whatever is allowed and whatever the bits.
C2_DenyAlways ==
  (last.op = "check" /\ last.inGuild /\ OwnerId(last.g) # last.u
     /\ ~activeAdmin(last.u) /\ last.cmd \in deniedUnion(last.g, last.roles))
    => (~last.raised /\ last.res = FALSE)

\* C2 (amended): deny precedence, provided the lookup of the role rules
\* succeeds.
C2_DenyPrecedence ==
  (last.op = "check" /\ last.inGuild /\ OwnerId(last.g) # last.u
     /\ ~activeAdmin(last.u) /\ last.cmd \in deniedUnion(last.g, last.roles)
     /\ "getUserAllowedCommands" \notin last.failed)
    => (~last.raised /\ last.res = FALSE)

\* a command denied by one role and allowed by another is refused to a
\* holder of the Administrator bit
C2_Witness ==
  /\ last.op = "check" /\ last.inGuild /\ OwnerId(last.g) # last.u
  /\ ~activeAdmin(last.u) /\ last.roles = {"mod", "vip"}
  /\ last.cmd \in cmdPerms[<<last.g, "mod">>].denied
  /\ last.cmd \notin cmdPerms[<<last.g, "vip">>].denied
  /\ last.cmd \in cmdPerms[<<last.g, "vip">>].allowed
  /\ "Administrator" \in last.bits
  /\ "getUserAllowedCommands" \notin last.failed
  /\ last.res = FALSE

\* C3: the guild owner is granted every command, without any store call, so
\* whatever the role rules say and whether or not the store can be reached.
C3_OwnerAllowed ==
  (last.op = "check" /\ last.inGuild /\ OwnerId(last.g) = last.u)
    => (last.res = TRUE /\ ~last.raised /\ last.made = <<>>)

C3_Witness ==
  /\ last.op = "check" /\ last.inGuild /\ OwnerId(last.g) = last.u
  /\ last.cmd \in deniedUnion(last.g, last.roles)
  /\ last.res = TRUE

\* C4: a user the registry reports as an active global admin is granted every
\* command before any role rule is consulted.
C4_AdminAllowed ==
  (last.op = "check" /\ last.inGuild /\ "isGlobalAdmin" \notin last.failed
     /\ last.admin.isAdmin)
    => (last.res = TRUE /\ ~last.raised
          /\ ~Includes(last.made, "getUserAllowedCommands"))

\* an admin answered from the store, with a role that denies the command
C4_Witness ==
  /\ last.op = "check" /\ last.inGuild /\ OwnerId(last.g) # last.u
  /\ last.admin.isAdmin /\ last.made = <<"isGlobalAdmin">>
  /\ last.cmd \in deniedUnion(last.g, last.roles)
  /\ last.res = TRUE

\* C9: checkCommandPermission never rejects.
C9_NeverRaises == last.op = "check" => ~last.raised

\* the capability the legacy switch requires for the command ("": none)
requiredCapability(commandName, subcommand) ==
  CASE commandName = "ticket" /\ subcommand # "create" -> "canManageTickets"
    [] commandName = "autoresponse" -> "canManageAutoResponses"
    [] commandName = "stats" -> "canViewStats"
    [] commandName = "embed" -> "canUseEmbedBuilder"
    [] OTHER -> ""

\* the capability set derived from the permission bits
capabilitiesOf(bits) ==
  IF "Administrator" \in bits THEN getAdminPermissions
  ELSE IF "ManageMessages" \in bits \/ "ManageChannels" \in bits
    THEN getModeratorPermissions
  ELSE getDefaultPermissions

C20_LazyDefaults ==
  (last.op = "getGuildSettings" /\ ~last.raised /\ last.created) =>
    /\ last.id
    /\ Len(last.feats) = 4
    /\ Elems(last.feats) = {"tickets", "autoresponses", "statistics", "webhooks"}
    /\ last.settings = <<>>
    /\ guildStore[last.g].exists
    /\ rowFeatures(guildStore[last.g]) = last.feats

\* what the global_admins row of the user says
storedAdmin(store, u) ==
  IF store[u].exists /\ store[u].active THEN [isAdmin |-> TRUE, level |-> store[u].level]
  ELSE [isAdmin |-> FALSE, level |-> 0]

\* C16: a failed store write.  updateFeatures whose settings read or write
\* fails, and a grant or revoke whose query fails, reject; after the former
\* the guild's feature cache entry is gone, unchanged or holds what the store
\* holds, after the latter the admin cache is unchanged.
C16_FailedWriteLeavesCaches ==
  [][/\ (last'.op = "updateFeatures"
           /\ last'.failed \cap {"settings", "updateGuildSettings"} # {}) =>
          /\ last'.raised
          /\ \/ ~featureCache'[last'.g].has
             \/ featureCache'[last'.g] = featureCache[last'.g]
                  /\ cacheExpiry'[last'.g] = cacheExpiry[last'.g]
             \/ featureCache'[last'.g].val = rowFeatures(guildStore'[last'.g])
     /\ (last'.op \in {"grant", "revoke"} /\ last'.failed # {}) =>
          (last'.raised /\ adminCache' = adminCache)]_vars

\* the write of a changed feature set failed and the cache holds another set
C16_Witness ==
  /\ last.op = "updateFeatures" /\ "updateGuildSettings" \in last.failed
  /\ last.raised
  /\ featureCache[last.g].has
  /\ featureCache[last.g].val # last.feats
  /\ rowFeatures(guildStore[last.g]) # last.feats

available(enabled, name) ==
  COMMAND_FEATURE_MAP(name) = "" \/ Includes(enabled, COMMAND_FEATURE_MAP(name))

\* C11: a resync sends exactly the commands of the catalog that need no
\* feature or whose feature is in the enabled set of the guild, once each,
\* and when the registration succeeds the guild's published catalog is the
\* list sent, nothing of the previous one remaining.
C11_ResyncPublishesEnabled ==
  (last.op = "putFeatures" /\ last.resyncs = 1) =>
    /\ \A name \in CommandNames :
         Includes(last.sent, name) <=> available(rowFeatures(guildStore[last.g]), name)
    /\ \A i, j \in DOMAIN last.sent :
         last.sent[i] \in CommandNames /\ (i # j => last.sent[i] # last.sent[j])
    /\ "rest.put" \notin last.failed =>
         guildCommands[last.g] = [has |-> TRUE, names |-> last.sent]

\* a resync that takes the ticket command out of the published catalog
C11_Witness ==
  /\ last.op = "putFeatures" /\ last.resyncs = 1 /\ "rest.put" \notin last.failed
  /\ Includes(last.before.names, "ticket")
  /\ ~Includes(guildCommands[last.g].names, "ticket")
  /\ Includes(guildCommands[last.g].names, "embed")

\* C12: a request whose updateFeatures succeeded has run exactly one resync.
C12_OneResyncPerUpdate ==
  (last.op = "putFeatures" /\ last.status = 200) => last.resyncs = 1

\* C13: when the ready handler has finished, every guild's published catalog
\* is the catalog filtered by the guild's enabled features.
C13_ResyncAtStart ==
  last.op = "ready" =>
    \A g \in Guilds :
      /\ guildCommands[g].has
      /\ \A name \in CommandNames :
           Includes(guildCommands[g].names, name)
             <=> available(rowFeatures(guildStore[g]), name)

\* C14: when the registration fails in the resync of a successful update, the
\* store and the cache hold the new enabled set and the published catalog of
\* the guild is the one published before.
C14_PublishFailureKeepsUpdate ==
  (last.op = "putFeatures" /\ last.status = 200 /\ "rest.put" \in last.failed) =>
    /\ rowFeatures(guildStore[last.g]) = last.feats
    /\ featureCache[last.g].has /\ featureCache[last.g].val = last.feats
    /\ guildCommands[last.g] = last.before

\* tickets was disabled, the registration failed, the ticket command stays
C14_Witness ==
  /\ last.op = "putFeatures" /\ last.status = 200 /\ "rest.put" \in last.failed
  /\ ~Includes(last.feats, "tickets")
  /\ guildCommands[last.g].has
  /\ Includes(guildCommands[last.g].names, "ticket")

\* C15: when the registration fails in the resync of an update, the answer
\* does not say that the commands were updated.
C15_PublishFailureSurfaced ==
  (last.op = "putFeatures" /\ last.status = 200 /\ "rest.put" \in last.failed) =>
    ~last.body.commandsUpdated

\* C17: a request whose body names a feature outside FeatureName is answered
\* 400 without a store call, and the store, the feature cache and the
\* published catalogs are as before.
C17_InvalidNameRejected ==
  [][(last'.op = "putFeatures" /\ last' # last
        /\ \E i \in DOMAIN last'.patch : last'.patch[i].feature \notin FeatureName) =>
       /\ last'.status = 400
       /\ last'.made = <<>>
       /\ UNCHANGED <<guildStore, featureCache, cacheExpiry, guildCommands>>]_vars

\* a body with tickets and an unknown name is refused, the row stays
C17_Witness ==
  /\ last.op = "putFeatures" /\ last.status = 400
  /\ \E i \in DOMAIN last.patch : last.patch[i].feature = "tickets" /\ ~last.patch[i].enabled
  /\ guildStore[last.g].exists
  /\ Includes(rowFeatures(guildStore[last.g]), "tickets")
  /\ featureCache[last.g].has

allowedUnion(g, userRoles) == UNION {cmdPerms[<<g, r>>].allowed : r \in userRoles}

\* the capability table of the legacy fallback
allowedByTable(bits, commandName, subcommand) ==
  IF commandName = "ticket" /\ subcommand = "create" THEN TRUE
  ELSE IF commandName \notin {"ticket", "autoresponse", "stats", "embed"} THEN TRUE
  ELSE IF "Administrator" \in bits THEN TRUE
  ELSE IF "ManageMessages" \in bits \/ "ManageChannels" \in bits
    THEN commandName \in {"ticket", "stats", "embed"}
  ELSE commandName = "embed"

\* no role rule names the command, the user is neither the guild's owner nor
\* a global admin, and the check returned
legacyDecides ==
  /\ last.op = "check" /\ last.inGuild /\ OwnerId(last.g) # last.u
  /\ ~activeAdmin(last.u) /\ ~last.admin.isAdmin
  /\ last.cmd \notin deniedUnion(last.g, last.roles)
  /\ last.cmd \notin allowedUnion(last.g, last.roles)
  /\ ~last.raised

C22_GrantRevokeLogged ==
  [][/\ Len(adminActivityLog') >= Len(adminActivityLog)
     /\ SubSeq(adminActivityLog', 1, Len(adminActivityLog)) = adminActivityLog
     /\ adminStore' # adminStore =>
          /\ Len(adminActivityLog') = Len(adminActivityLog) + 1
          /\ LET rec == adminActivityLog'[Len(adminActivityLog')] IN
             /\ rec.action \in {"ADD_GLOBAL_ADMIN", "REMOVE_GLOBAL_ADMIN"}
             /\ rec.target_id \in Users
             /\ adminStore'[rec.target_id] # adminStore[rec.target_id]
             /\ rec.action = "ADD_GLOBAL_ADMIN" <=> adminStore'[rec.target_id].active]_vars

\* C24: every stored admin record has a level in 1..3.
C24_LevelInRange ==
  \A u \in Users : adminStore[u].exists => adminStore[u].level \in 1..3

\* C25: an invocation of a command whose feature is disabled for the guild,
\* handled without a failing call, is answered with the feature-disabled
\* outcome, whatever the caller's permission, and no usage row was written.
C25_FeatureGateFirst ==
  (last.op = "interaction" /\ last.inGuild /\ last.failed = {}
     /\ featureDisabled(last.g, last.cmd)) =>
    (last.outcome = "feature-disabled" /\ ~Includes(last.made, "logCommand"))

\* C26: a successful updateFeatures(G, patch) on a guild that has a row leaves
\* every feature the patch does not name as the row had it.
C26_UpdateFrame ==
  [][(last' # last /\ last'.op = "updateFeatures" /\ ~last'.raised
        /\ guildStore[last'.g].exists) =>
       \A f \in FeatureName :
         (\A i \in DOMAIN last'.patch : last'.patch[i].feature # f) =>
           (Includes(rowFeatures(guildStore'[last'.g]), f)
              <=> Includes(rowFeatures(guildStore[last'.g]), f))]_vars

\* the call in slot i is a cache miss that no write of its key crossed
cleanMiss(c, op) == c.op = op /\ c.stage = "done" /\ c.missed /\ ~c.dirty

\* the unexpired cache entry of the guild holds the array
cacheHolds(C, g, t, feats) == getCachedFeatures(C, g, t).hit /\ getCachedFeatures(C, g, t).val = feats

\* C23: when the second of two overlapping cache misses for one key ends
\* (two getEnabledFeatures of a guild, or two isGlobalAdmin of a user, no
\* write of the key in between), neither call has raised, both return the
\* same result, and the cache holds that result; the guild may have had no
\* stored row, so that both calls create it.
C23_ConcurrentMissesAgree ==
  [][\A i \in Slots :
       \A j \in calls'[i].with :
         /\ (/\ calls[i].stage # "done"
             /\ cleanMiss(calls'[i], "getEnabledFeatures")
             /\ cleanMiss(calls'[j], "getEnabledFeatures")
             /\ calls'[j].key = calls'[i].key)
            => /\ ~calls'[i].raised /\ ~calls'[j].raised
               /\ calls'[i].res = calls'[j].res
               /\ cacheHolds([cache |-> featureCache', expiry |-> cacheExpiry'], calls'[i].key, now', calls'[i].res)
         /\ (/\ calls[i].stage # "done"
             /\ cleanMiss(calls'[i], "isGlobalAdmin")
             /\ cleanMiss(calls'[j], "isGlobalAdmin")
             /\ calls'[j].key = calls'[i].key)
            => /\ calls'[i].admin = calls'[j].admin
               /\ adminCache'[calls'[i].key].has
               /\ adminCache'[calls'[i].key].isAdmin = calls'[i].admin.isAdmin
               /\ adminCache'[calls'[i].key].level = calls'[i].admin.level]_vars

\* C27: when no updateFeatures of a guild is in flight and no statement has
\* failed, an unexpired cache entry of the guild equals the stored set of
\* the guild.
C27_CacheEqualsStoreAtRest ==
  \A g \in Guilds :
    (/\ \A i \in Slots : ~(inFlight(calls[i]) /\ calls[i].op = "updateFeatures" /\ calls[i].key = g)
     /\ \A i \in Slots : ~calls[i].raised /\ ~calls[i].reply.raised
     /\ getCachedFeatures(FC, g, now).hit)
    => /\ guildStore[g].exists
       /\ getCachedFeatures(FC, g, now).val = rowFeatures(guildStore[g])

\* C28: an isGlobalAdmin(u) that starts after a revocation of u has
\* completed, with no grant of u after it, returns {isAdmin: false,
\* level: 0}.
C28_RevokedStaysRevoked ==
  \A i \in Slots :
    (/\ calls[i].op = "isGlobalAdmin"
     /\ calls[i].stage = "done"
     /\ calls[i].revokedAtStart
     /\ ~calls[i].dirty)
    => calls[i].admin = [isAdmin |-> FALSE, level |-> 0]

\* the features named in COMMAND_FEATURE_MAP
MappedFeatures == {COMMAND_FEATURE_MAP(c) : c \in CommandNames} \ {""}

\* C29: in every cache and store state, and whether the store read succeeds
\* or fails, isFeatureEnabled(G, f) returns true exactly when f is in the
\* array getEnabledFeatures(G) returns, for every feature f named in the
\* command-to-feature table.
C29_ReadsAgree ==
  \A g \in Guilds, f \in MappedFeatures, ok \in BOOLEAN :
    isFeatureEnabled(guildStore, FC, g, f, now, ok).res
      <=> Includes(getEnabledFeatures(guildStore, FC, g, now, ok).res, f)

\* the feature is in the stored set of the guild and its command is in the
\* catalog published for the guild
switchedOn(g, f) ==
  /\ guildStore[g].exists
  /\ Includes(rowFeatures(guildStore[g]), f)
  /\ guildCommands[g].has
  /\ Includes(guildCommands[g].names, commandOf(f))

\* C30: every feature named in the command-to-feature table can be switched
\* on through the dashboard update path: when the dashboard keeps sending
\* the patch {f: true} and no store call fails, f is eventually in the
\* stored enabled set of the guild and its command in the published catalog.
C30_EveryMappedFeatureSwitchesOn ==
  \A f \in MappedFeatures : <>(\E g \in Guilds : switchedOn(g, f))

====
